---- MODULE Spec2Model ----
(***************************************************************************)
(* Model of the hotel identity-resolution program of match_EXCEL.py: the  *)
(* text normalizers, the address parser, the candidate filter, the fuzzy  *)
(* match decision, persistence into hotel_mapped_url, the run driven by   *)
(* run_scrape_and_map, and retry_action; country_to_code of main.py is     *)
(* modelled beside the one of match_EXCEL.py.                              *)
(*                                                                         *)
(* Text is a sequence of one-character strings; Python's None is NoneS    *)
(* for text values and Null for identifiers and coordinates.              *)
(***************************************************************************)
EXTENDS Integers, Sequences, FiniteSets, TLC

VARIABLES
    pc,          \* position of the request handler run_scrape_and_map / main_scrape_and_map
    excel,       \* the rows of the master Excel file at EXCEL_PATH
    df_master,   \* the master table returned by load_csl_hotels (registry order)
    schema,      \* destination table: "none", "created" (by the code), "provisioned" (with the unique key)
    db,          \* rows of table hotel_mapped_url, in insertion order
    locations,   \* the result of load_locations(): the locations still to visit are loc..Len(locations)
    loc,         \* index of the location being processed
    crawl,       \* per hotel link of the current location: the href and what retry_action returned for it
    crawl_failed,\* locations of this run whose collection raised inside scrape_hotels_from_location
    hotels,      \* the list scrape_hotels_from_location returned
    matched,     \* the list match_hotels returned
    all_results, \* main_scrape_and_map's accumulator
    saved,       \* per location of this run that reached save_to_db without error, the outcomes handed over
    snapshot,    \* content of hilton_hotel_url_mapped.json, or NoFile
    fatal,       \* the failure that interrupted this run, or "none"
    response,    \* what run_scrape_and_map returned to the caller, or NoResponse
    runs,        \* number of runs started
    txt_in,      \* input of the helper function under check
    txt_out,     \* its result
    txt_op       \* which helper function was applied, or its position

vars == <<pc, excel, df_master, schema, db, locations, loc, crawl, crawl_failed, hotels, matched,
          all_results, saved, snapshot, fatal, response, runs, txt_in, txt_out, txt_op>>

runVars == <<pc, excel, df_master, schema, db, locations, loc, crawl, crawl_failed, hotels, matched,
             all_results, saved, snapshot, fatal, response, runs>>

txtVars == <<txt_in, txt_out, txt_op>>

-----------------------------------------------------------------------------
(* Characters and Python's str methods *)

LOWER == <<"a","b","c","d","e","f","g","h","i","j","k","l","m",
           "n","o","p","q","r","s","t","u","v","w","x","y","z">>

UPPER == <<"A","B","C","D","E","F","G","H","I","J","K","L","M",
           "N","O","P","Q","R","S","T","U","V","W","X","Y","Z">>

DIGITS == <<"0","1","2","3","4","5","6","7","8","9">>

Range(s) == {s[i] : i \in DOMAIN s}

IsLower(c) == c \in Range(LOWER)

IsUpper(c) == c \in Range(UPPER)

IsDigit(c) == c \in Range(DIGITS)

IsAlpha(c) == IsLower(c) \/ IsUpper(c)

\* \s of the re module, and the characters str.strip() and str.split() drop
IsSpace(c) == c \in {" ", "\t", "\n", "\r", "\f"}

\* \w of the re module
IsWord(c) == IsAlpha(c) \/ IsDigit(c) \/ c = "_"

LowerChar(c) == IF IsUpper(c) THEN LOWER[CHOOSE i \in DOMAIN UPPER : UPPER[i] = c] ELSE c

UpperChar(c) == IF IsLower(c) THEN UPPER[CHOOSE i \in DOMAIN LOWER : LOWER[i] = c] ELSE c

\* str.lower()
Lower(s) == [i \in DOMAIN s |-> LowerChar(s[i])]

\* str.upper()
Upper(s) == [i \in DOMAIN s |-> UpperChar(s[i])]

\* str.isalpha(): every character a letter, and at least one
IsAlphaStr(s) == Len(s) > 0 /\ \A i \in DOMAIN s : IsAlpha(s[i])

SetMin(S) == CHOOSE x \in S : \A y \in S : x <= y

SetMax(S) == CHOOSE x \in S : \A y \in S : x >= y

\* str.strip()
Strip(s) ==
    LET keep == {i \in DOMAIN s : ~IsSpace(s[i])}
    IN  IF keep = {} THEN <<>> ELSE SubSeq(s, SetMin(keep), SetMax(keep))

\* str.split(sep) for a one-character separator
RECURSIVE SplitOn(_, _)
SplitOn(s, sep) ==
    LET at == {i \in DOMAIN s : s[i] = sep}
    IN  IF at = {} THEN <<s>>
        ELSE <<SubSeq(s, 1, SetMin(at) - 1)>> \o SplitOn(SubSeq(s, SetMin(at) + 1, Len(s)), sep)

\* str.split(): the maximal runs of non-whitespace characters
RECURSIVE SplitWs(_)
SplitWs(s) ==
    LET t == Strip(s)
        ws == {i \in DOMAIN t : IsSpace(t[i])}
    IN  IF t = <<>> THEN <<>>
        ELSE IF ws = {} THEN <<t>>
        ELSE <<SubSeq(t, 1, SetMin(ws) - 1)>> \o SplitWs(SubSeq(t, SetMin(ws) + 1, Len(t)))

\* Python's None, for a text value
NoneS == <<"None">>

\* Python's None, for an identifier or a coordinate
Null == "None"

\* truthiness of a text value: neither None nor ""
Truthy(s) == s # NoneS /\ s # <<>>

-----------------------------------------------------------------------------
(* HELPERS *)

RETRY_LIMIT == 3

FUZZY_THRESHOLD == 85

NameChar(c) == IsLower(c) \/ IsDigit(c) \/ c = " "

NotSpace(c) == ~IsSpace(c)

\* re.sub(pattern+, " ", s): every maximal run of characters the pattern matches
\* becomes one space; keep[i] tells whether s[i] is outside the pattern
SubRunsBySpace(s, keep) ==
    LET First(i) == keep[i] \/ i = 1 \/ keep[i - 1]
        at == SelectSeq([i \in DOMAIN s |-> i], First)
    IN  [k \in DOMAIN at |-> IF keep[at[k]] THEN s[at[k]] ELSE " "]

normalize_name(name) ==
    IF ~Truthy(name) THEN <<>>
    ELSE LET lowered == Lower(name)
             spaced == SubRunsBySpace(lowered, [i \in DOMAIN lowered |-> NameChar(lowered[i])])
             collapsed == SubRunsBySpace(spaced, [i \in DOMAIN spaced |-> NotSpace(spaced[i])])
         IN  Strip(collapsed)

TextChar(c) == IsLower(c) \/ IsDigit(c) \/ IsSpace(c)

normalize_text(val) ==
    IF val = NoneS THEN <<>>
    ELSE IF Lower(val) = <<"n", "a", "n">> THEN <<>>
    ELSE Strip(SelectSeq(Lower(val), TextChar))

\* US state name to code lookup
STATE_CODE_MAP == <<
    <<<<"a","l","a","b","a","m","a">>, <<"A","L">>>>,
    <<<<"a","l","a","s","k","a">>, <<"A","K">>>>,
    <<<<"a","r","i","z","o","n","a">>, <<"A","Z">>>>,
    <<<<"a","r","k","a","n","s","a","s">>, <<"A","R">>>>,
    <<<<"c","a","l","i","f","o","r","n","i","a">>, <<"C","A">>>>,
    <<<<"c","o","l","o","r","a","d","o">>, <<"C","O">>>>,
    <<<<"c","o","n","n","e","c","t","i","c","u","t">>, <<"C","T">>>>,
    <<<<"d","e","l","a","w","a","r","e">>, <<"D","E">>>>,
    <<<<"f","l","o","r","i","d","a">>, <<"F","L">>>>,
    <<<<"g","e","o","r","g","i","a">>, <<"G","A">>>>,
    <<<<"h","a","w","a","i","i">>, <<"H","I">>>>,
    <<<<"i","d","a","h","o">>, <<"I","D">>>>,
    <<<<"i","l","l","i","n","o","i","s">>, <<"I","L">>>>,
    <<<<"i","n","d","i","a","n","a">>, <<"I","N">>>>,
    <<<<"i","o","w","a">>, <<"I","A">>>>,
    <<<<"k","a","n","s","a","s">>, <<"K","S">>>>,
    <<<<"k","e","n","t","u","c","k","y">>, <<"K","Y">>>>,
    <<<<"l","o","u","i","s","i","a","n","a">>, <<"L","A">>>>,
    <<<<"m","a","i","n","e">>, <<"M","E">>>>,
    <<<<"m","a","r","y","l","a","n","d">>, <<"M","D">>>>,
    <<<<"m","a","s","s","a","c","h","u","s","e","t","t","s">>, <<"M","A">>>>,
    <<<<"m","i","c","h","i","g","a","n">>, <<"M","I">>>>,
    <<<<"m","i","n","n","e","s","o","t","a">>, <<"M","N">>>>,
    <<<<"m","i","s","s","i","s","s","i","p","p","i">>, <<"M","S">>>>,
    <<<<"m","i","s","s","o","u","r","i">>, <<"M","O">>>>,
    <<<<"m","o","n","t","a","n","a">>, <<"M","T">>>>,
    <<<<"n","e","b","r","a","s","k","a">>, <<"N","E">>>>,
    <<<<"n","e","v","a","d","a">>, <<"N","V">>>>,
    <<<<"n","e","w"," ","h","a","m","p","s","h","i","r","e">>, <<"N","H">>>>,
    <<<<"n","e","w"," ","j","e","r","s","e","y">>, <<"N","J">>>>,
    <<<<"n","e","w"," ","m","e","x","i","c","o">>, <<"N","M">>>>,
    <<<<"n","e","w"," ","y","o","r","k">>, <<"N","Y">>>>,
    <<<<"n","o","r","t","h"," ","c","a","r","o","l","i","n","a">>, <<"N","C">>>>,
    <<<<"n","o","r","t","h"," ","d","a","k","o","t","a">>, <<"N","D">>>>,
    <<<<"o","h","i","o">>, <<"O","H">>>>,
    <<<<"o","k","l","a","h","o","m","a">>, <<"O","K">>>>,
    <<<<"o","r","e","g","o","n">>, <<"O","R">>>>,
    <<<<"p","e","n","n","s","y","l","v","a","n","i","a">>, <<"P","A">>>>,
    <<<<"r","h","o","d","e"," ","i","s","l","a","n","d">>, <<"R","I">>>>,
    <<<<"s","o","u","t","h"," ","c","a","r","o","l","i","n","a">>, <<"S","C">>>>,
    <<<<"s","o","u","t","h"," ","d","a","k","o","t","a">>, <<"S","D">>>>,
    <<<<"t","e","n","n","e","s","s","e","e">>, <<"T","N">>>>,
    <<<<"t","e","x","a","s">>, <<"T","X">>>>,
    <<<<"u","t","a","h">>, <<"U","T">>>>,
    <<<<"v","e","r","m","o","n","t">>, <<"V","T">>>>,
    <<<<"v","i","r","g","i","n","i","a">>, <<"V","A">>>>,
    <<<<"w","a","s","h","i","n","g","t","o","n">>, <<"W","A">>>>,
    <<<<"w","e","s","t"," ","v","i","r","g","i","n","i","a">>, <<"W","V">>>>,
    <<<<"w","i","s","c","o","n","s","i","n">>, <<"W","I">>>>,
    <<<<"w","y","o","m","i","n","g">>, <<"W","Y">>>> >>

\* dict.get(key): the value, or None
StateMapGet(key) ==
    IF \E i \in DOMAIN STATE_CODE_MAP : STATE_CODE_MAP[i][1] = key
    THEN STATE_CODE_MAP[CHOOSE i \in DOMAIN STATE_CODE_MAP : STATE_CODE_MAP[i][1] = key][2]
    ELSE NoneS

state_to_code(state) ==
    IF ~Truthy(state) THEN NoneS
    ELSE LET s == Strip(state)
         IN  IF Len(s) = 2 /\ IsAlphaStr(s) THEN Upper(s) ELSE StateMapGet(Lower(s))

\* the spellings country_to_code normalizes to "US"
US_VARIANTS ==
    { <<"U","S","A">>,
      <<"U","N","I","T","E","D"," ","S","T","A","T","E","S">>,
      <<"U","S">>,
      <<"U",".","S",".">>,
      <<"U",".","S",".","A",".">> }

country_to_code(country) ==
    IF ~Truthy(country) THEN NoneS
    ELSE LET c == Strip(country)
         IN  IF c = <<>> THEN NoneS
             ELSE IF Upper(c) \in US_VARIANTS THEN <<"U","S">>
             ELSE Upper(c)

\* StateMatch without the word boundary
StateMatch_NoBoundary(s) == Len(s) >= 2 /\ IsAlpha(s[1]) /\ IsAlpha(s[2])

\* re.match(r"([A-Za-z]{2})\b", s): two letters at the start, then a word boundary
StateMatch(s) ==
    /\ Len(s) >= 2
    /\ IsAlpha(s[1])
    /\ IsAlpha(s[2])
    /\ (Len(s) = 2 \/ ~IsWord(s[3]))

\* [p.strip() for p in address.split(",") if p.strip()]
AddressParts(address) ==
    LET raw == SplitOn(address, ",")
        stripped == [i \in DOMAIN raw |-> Strip(raw[i])]
        NonEmpty(p) == p # <<>>
    IN  SelectSeq(stripped, NonEmpty)

\* the result is <<city, state, country>>
parse_address_components(address) ==
    IF ~Truthy(address) THEN << <<>>, <<>>, <<>> >>
    ELSE LET parts == AddressParts(address)
             n == Len(parts)
             country == IF n >= 1 THEN parts[n] ELSE <<>>
             us_style == n >= 3 /\ StateMatch(parts[n - 1])
             state == IF us_style THEN SubSeq(parts[n - 1], 1, 2) ELSE <<>>
             city3 == IF n >= 3
                      THEN (IF us_style THEN parts[n - 2] ELSE parts[n - 1])
                      ELSE <<>>
             city == IF city3 = <<>> /\ n >= 2 THEN parts[n - 1] ELSE city3
         IN  <<Strip(city), Strip(state), Strip(country)>>

normalize_state(state) == state_to_code(state)

normalize_country(country) == country_to_code(country)

-----------------------------------------------------------------------------
(* fuzz.token_set_ratio of rapidfuzz, as match_hotels calls it.  A score is *)
(* held in hundredths of a point (8571 is 85.71), rounded up.               *)

\* the characters of the model in code point order
ASCII_ORDER == <<"\t", "\n", "\f", "\r", " ", ",", "-", ".">> \o DIGITS \o UPPER \o <<"_">> \o LOWER

Code(c) == CHOOSE i \in DOMAIN ASCII_ORDER : ASCII_ORDER[i] = c

\* a <= b for Python strings
RECURSIVE StrLeq(_, _)
StrLeq(a, b) ==
    IF a = <<>> THEN TRUE
    ELSE IF b = <<>> THEN FALSE
    ELSE IF Head(a) = Head(b) THEN StrLeq(Tail(a), Tail(b))
    ELSE Code(Head(a)) < Code(Head(b))

\* sorted(tokens)
RECURSIVE Sorted(_)
Sorted(S) ==
    IF S = {} THEN <<>>
    ELSE LET m == CHOOSE x \in S : \A y \in S : StrLeq(x, y)
         IN  <<m>> \o Sorted(S \ {m})

\* " ".join(words)
RECURSIVE JoinSp(_)
JoinSp(words) ==
    IF words = <<>> THEN <<>>
    ELSE IF Len(words) = 1 THEN words[1]
    ELSE words[1] \o <<" ">> \o JoinSp(Tail(words))

Max2(a, b) == IF a >= b THEN a ELSE b

\* length of the longest common subsequence
RECURSIVE LcsLen(_, _)
LcsLen(a, b) ==
    IF a = <<>> \/ b = <<>> THEN 0
    ELSE IF Head(a) = Head(b) THEN 1 + LcsLen(Tail(a), Tail(b))
    ELSE Max2(LcsLen(Tail(a), b), LcsLen(a, Tail(b)))

\* Indel.distance: insertions and deletions turning a into b
IndelDistance(a, b) == Len(a) + Len(b) - 2 * LcsLen(a, b)

\* norm_distance(dist, lensum): 100 - 100 * dist / lensum, in hundredths
NormDistance(dist, lensum) ==
    IF lensum = 0 THEN 10000 ELSE 10000 - ((10000 * dist) \div lensum)

\* token_set_ratio that scores 0 when the two strings have no token in common
token_set_ratio_SharedTokensOnly(s1, s2) ==
    IF ~Truthy(s1) \/ ~Truthy(s2) THEN 0
    ELSE LET tokens_a == Range(SplitWs(s1))
             tokens_b == Range(SplitWs(s2))
             intersect == tokens_a \cap tokens_b
             diff_ab == tokens_a \ tokens_b
             diff_ba == tokens_b \ tokens_a
             diff_ab_joined == JoinSp(Sorted(diff_ab))
             diff_ba_joined == JoinSp(Sorted(diff_ba))
             ab_len == Len(diff_ab_joined)
             ba_len == Len(diff_ba_joined)
             sect_len == Len(JoinSp(Sorted(intersect)))
             sep == IF sect_len # 0 THEN 1 ELSE 0
             sect_ab_len == sect_len + sep + ab_len
             sect_ba_len == sect_len + sep + ba_len
             result == NormDistance(IndelDistance(diff_ab_joined, diff_ba_joined),
                                    sect_ab_len + sect_ba_len)
             sect_ab_ratio == NormDistance(sep + ab_len, sect_len + sect_ab_len)
             sect_ba_ratio == NormDistance(sep + ba_len, sect_len + sect_ba_len)
         IN  IF tokens_a = {} \/ tokens_b = {} THEN 0
             ELSE IF intersect # {} /\ (diff_ab = {} \/ diff_ba = {}) THEN 10000
             ELSE IF sect_len = 0 THEN 0
             ELSE Max2(result, Max2(sect_ab_ratio, sect_ba_ratio))

token_set_ratio(s1, s2) ==
    IF ~Truthy(s1) \/ ~Truthy(s2) THEN 0
    ELSE LET tokens_a == Range(SplitWs(s1))
             tokens_b == Range(SplitWs(s2))
             intersect == tokens_a \cap tokens_b
             diff_ab == tokens_a \ tokens_b
             diff_ba == tokens_b \ tokens_a
             diff_ab_joined == JoinSp(Sorted(diff_ab))
             diff_ba_joined == JoinSp(Sorted(diff_ba))
             ab_len == Len(diff_ab_joined)
             ba_len == Len(diff_ba_joined)
             sect_len == Len(JoinSp(Sorted(intersect)))
             sep == IF sect_len # 0 THEN 1 ELSE 0
             sect_ab_len == sect_len + sep + ab_len
             sect_ba_len == sect_len + sep + ba_len
             result == NormDistance(IndelDistance(diff_ab_joined, diff_ba_joined),
                                    sect_ab_len + sect_ba_len)
             sect_ab_ratio == NormDistance(sep + ab_len, sect_len + sect_ab_len)
             sect_ba_ratio == NormDistance(sep + ba_len, sect_len + sect_ba_len)
         IN  IF tokens_a = {} \/ tokens_b = {} THEN 0
             ELSE IF intersect # {} /\ (diff_ab = {} \/ diff_ba = {}) THEN 10000
             ELSE IF sect_len = 0 THEN result
             ELSE Max2(result, Max2(sect_ab_ratio, sect_ba_ratio))

-----------------------------------------------------------------------------
(* Bounds and the data the runs draw from *)

MaxMasterRows == 2

MaxLocations == 2

MaxLinks == 2

MaxRuns == 1

\* rows an Excel master file is made of: Global Property ID, Global Property Name,
\* Property City Name, Property State/Province, Property Country Code,
\* Property Latitude, Property Longitude
EXCEL_ROWS ==
    { [id |-> "P1", name |-> <<"A","b","c","d">>, city |-> <<"B","a">>, state |-> <<"W","A">>,
       country |-> <<"U","S">>, lat |-> "lat1", lon |-> "lon1"],
      [id |-> "P2", name |-> <<"A","b","c","e">>, city |-> <<"B","a">>, state |-> <<"w","a"," ">>,
       country |-> <<"U","S">>, lat |-> "lat2", lon |-> "lon2"],
      [id |-> "P3", name |-> <<"A","b","c">>, city |-> <<"B","a",".">>, state |-> <<"O","R">>,
       country |-> <<"u","s">>, lat |-> "lat3", lon |-> "lon3"],
      [id |-> "P4", name |-> <<"A","b","c">>, city |-> <<"B","a">>, state |-> <<"W","A">>,
       country |-> <<"U","S","A">>, lat |-> "lat4", lon |-> "lon4"] }

\* the sequences of at most n distinct elements of S
DistinctSeqs(S, n) ==
    UNION { {q \in [1..k -> S] : \A i, j \in 1..k : i < j => q[i] # q[j]} : k \in 0..n }

\* the master files a run may find
EXCEL_FILES == DistinctSeqs(EXCEL_ROWS, MaxMasterRows)

\* the hotel pages of the site: what the h1 element and the address element show
SITE ==
    [u \in {"u1", "u2", "u3"} |->
        CASE u = "u1" -> [name |-> <<"A","b","c">>,
                          address |-> <<"B","a",","," ","W","A"," ","9",","," ","U","S","A">>]
          [] u = "u2" -> [name |-> <<"A","b"," ","C">>,
                          address |-> <<"B","a",",","U",".","S",".">>]
          [] u = "u3" -> [name |-> <<"A","b","c">>,
                          address |-> <<"U","S","A">>] ]

URLS == DOMAIN SITE

\* what a failed scrape of a hotel page leaves: Python's None for a record
NoneRec == [none |-> TRUE]

\* hilton_hotel_url_mapped.json was not written yet
NoFile == <<[missing |-> TRUE]>>

NoResponse == [status |-> "none"]

-----------------------------------------------------------------------------
(* LOAD CSL DATA *)

\* astype(str) of a cell: an empty cell (NaN) reads "nan"
AsStr(cell) == IF cell = NoneS THEN <<"n","a","n">> ELSE cell

\* the derived columns of one row
LoadRow(r) ==
    [id |-> r.id, name |-> r.name, lat |-> r.lat, lon |-> r.lon,
     normalized_name |-> normalize_name(r.name),
     city |-> AsStr(r.city), state |-> AsStr(r.state), country |-> AsStr(r.country),
     city_norm |-> normalize_text(AsStr(r.city)),
     hotel_norm |-> normalize_text(r.name),
     state_code |-> Strip(Upper(AsStr(r.state))),
     country_code |-> Strip(Upper(AsStr(r.country)))]

load_csl_hotels(file) == [i \in DOMAIN file |-> LoadRow(file[i])]

-----------------------------------------------------------------------------
(* SCRAPER CORE *)

\* the record scrape_single_hotel builds from a page
scrape_single_hotel(name, address, href) ==
    LET parsed == parse_address_components(address)
        city == parsed[1]
        state == parsed[2]
        country == parsed[3]
    IN  [scraped_name |-> name,
         hotel_norm |-> normalize_text(name),
         address |-> address,
         city |-> city,
         city_norm |-> normalize_text(city),
         state |-> state,
         state_code |-> normalize_state(state),
         country |-> country,
         country_code |-> normalize_country(country),
         url |-> href]

\* results.append(hotel_data) for every hotel_data that is not None
KeepScraped(results) ==
    LET Got(c) == c.data # NoneRec
        kept == SelectSeq(results, Got)
    IN  [k \in DOMAIN kept |-> kept[k].data]

-----------------------------------------------------------------------------
(* MATCH HOTELS *)

\* Skipped without the test of city and country code
Skipped_OnlyNone(item) == item = NoneRec

\* if not item: continue / if not item["city_norm"] or not item["country_code"]: continue
Skipped(item) ==
    \/ item = NoneRec
    \/ ~Truthy(item.city_norm)
    \/ ~Truthy(item.country_code)

\* Candidates without the restriction to the record's state code
Candidates_NoState(item, df) ==
    LET index == [i \in DOMAIN df |-> i]
        SameGeo(i) == df[i].city_norm = item.city_norm /\ df[i].country_code = item.country_code
    IN  SelectSeq(index, SameGeo)

\* the rows of df_master kept as candidates, by their index, in the table's order
Candidates(item, df) ==
    LET index == [i \in DOMAIN df |-> i]
        SameGeo(i) == df[i].city_norm = item.city_norm /\ df[i].country_code = item.country_code
        by_geo == SelectSeq(index, SameGeo)
        SameState(i) == df[i].state_code = item.state_code
    IN  IF Truthy(item.state_code) THEN SelectSeq(by_geo, SameState) ELSE by_geo

\* Better with >= for >: the last of equal scores would win
Better_OrEqual(score, best_score) == score >= best_score

\* if score > best_score
Better(score, best_score) == score > best_score

\* the loop over candidates.iterrows(): <<best_score, best_row>>, best_row 0 for None
RECURSIVE BestCandidate(_, _, _, _, _)
BestCandidate(item, df, cands, best_score, best_row) ==
    IF cands = <<>> THEN <<best_score, best_row>>
    ELSE LET row == Head(cands)
             score == token_set_ratio(item.hotel_norm, df[row].hotel_norm)
         IN  IF Better(score, best_score)
             THEN BestCandidate(item, df, Tail(cands), score, row)
             ELSE BestCandidate(item, df, Tail(cands), best_score, best_row)

\* Accepted without the threshold
Accepted_NoThreshold(best_score, best_row) == best_row # 0

\* if best_row is not None and best_score >= FUZZY_THRESHOLD
Accepted(best_score, best_row) == best_row # 0 /\ best_score >= FUZZY_THRESHOLD * 100

\* the dict appended for a match
MatchedOutcome(item, row, best_score) ==
    [hotel_code |-> row.id,
     scraped_hotel_name |-> item.scraped_name,
     global_property_name |-> row.name,
     city |-> item.city, state |-> item.state, state_code |-> item.state_code,
     country |-> item.country, country_code |-> item.country_code,
     url |-> item.url, address |-> item.address,
     latitude |-> row.lat, longitude |-> row.lon,
     match_confidence |-> best_score]

\* the dict appended otherwise
UnmatchedOutcome(item) ==
    [hotel_code |-> Null,
     scraped_hotel_name |-> item.scraped_name,
     global_property_name |-> NoneS,
     city |-> item.city, state |-> item.state, state_code |-> item.state_code,
     country |-> item.country, country_code |-> item.country_code,
     url |-> item.url, address |-> item.address,
     latitude |-> Null, longitude |-> Null,
     match_confidence |-> 0]

\* the outcome of one record that was not skipped
Decide(item, df) ==
    LET best == BestCandidate(item, df, Candidates(item, df), 0, 0)
    IN  IF Accepted(best[1], best[2])
        THEN MatchedOutcome(item, df[best[2]], best[1])
        ELSE UnmatchedOutcome(item)

RECURSIVE match_hotels(_, _)
match_hotels(scraped_hotels, df) ==
    IF scraped_hotels = <<>> THEN <<>>
    ELSE IF Skipped(Head(scraped_hotels)) THEN match_hotels(Tail(scraped_hotels), df)
    ELSE <<Decide(Head(scraped_hotels), df)>> \o match_hotels(Tail(scraped_hotels), df)

-----------------------------------------------------------------------------
(* DATABASE SAVE *)

\* ON CONFLICT (hotel_code, url): a stored row with the same key; in SQL a NULL
\* hotel_code equals no hotel_code, so a row without one conflicts with nothing
Conflicts(row, table) ==
    /\ row.hotel_code # Null
    /\ \E i \in DOMAIN table : table[i].hotel_code = row.hotel_code /\ table[i].url = row.url

\* conn.execute(insert_sql, records): one INSERT ... DO NOTHING per record, in order
RECURSIVE InsertAll(_, _)
InsertAll(records, table) ==
    IF records = <<>> THEN table
    ELSE IF Conflicts(Head(records), table) THEN InsertAll(Tail(records), table)
    ELSE InsertAll(Tail(records), Append(table, Head(records)))

\* The INSERT names scraped_hotel_name, state_code and the key (hotel_code, url); the
\* table create_table_if_not_exists creates has the column scraped_name, no state_code
\* and no unique constraint, so the statement is accepted only by a table that was
\* provisioned with those columns and that constraint.
InsertAccepted(table_schema) == table_schema = "provisioned"

-----------------------------------------------------------------------------
(* MAIN PROCESS and FLASK API: one request to /run_scrape_and_map *)

TxtIdle == txt_in = <<>> /\ txt_out = <<>> /\ txt_op = "none"

Init ==
    /\ pc = "idle"
    /\ excel \in EXCEL_FILES
    /\ schema \in {"none", "provisioned"}
    /\ df_master = <<>>
    /\ db = <<>>
    /\ locations = <<>>
    /\ loc = 0
    /\ crawl = <<>>
    /\ crawl_failed = {}
    /\ hotels = <<>>
    /\ matched = <<>>
    /\ all_results = <<>>
    /\ saved = <<>>
    /\ snapshot = NoFile
    /\ fatal = "none"
    /\ response = NoResponse
    /\ runs = 0
    /\ TxtIdle

\* jsonify({"status": "success", "count": len(results) ...}), 200
SuccessResponse(results) == [status |-> "success", count |-> Len(results), code |-> 200]

\* jsonify({"status": "error", "message": str(e)}), 500
ErrorResponse(e) == [status |-> "error", message |-> e, code |-> 500]

\* run_scrape_and_map is entered: the driver is made and main_scrape_and_map called
RunStart ==
    /\ pc = "idle"
    /\ runs < MaxRuns
    /\ runs' = runs + 1
    /\ pc' = "create_table"
    /\ df_master' = <<>>
    /\ locations' = <<>>
    /\ loc' = 0
    /\ crawl' = <<>>
    /\ crawl_failed' = {}
    /\ hotels' = <<>>
    /\ matched' = <<>>
    /\ all_results' = <<>>
    /\ saved' = <<>>
    /\ fatal' = "none"
    /\ response' = NoResponse
    /\ UNCHANGED <<excel, schema, db, snapshot, txtVars>>

\* an exception that leaves main_scrape_and_map: run_scrape_and_map's except clause
\* answers with the error and the finally clause quits the driver
RaiseToCaller(e) ==
    /\ fatal' = e
    /\ response' = ErrorResponse(e)
    /\ pc' = "idle"

\* an exception inside the try of main_scrape_and_map: printed, and the function goes
\* on to write the snapshot
CaughtFatal(e) ==
    /\ fatal' = e
    /\ pc' = "snapshot"

\* create_table_if_not_exists(): CREATE TABLE IF NOT EXISTS leaves an existing table alone
CreateTable ==
    /\ pc = "create_table"
    /\ \/ /\ schema' = IF schema = "none" THEN "created" ELSE schema
          /\ pc' = "load_csl"
          /\ UNCHANGED <<fatal, response>>
       \/ /\ RaiseToCaller("create_table_if_not_exists")
          /\ UNCHANGED schema
    /\ UNCHANGED <<excel, df_master, db, locations, loc, crawl, crawl_failed, hotels, matched,
                   all_results, saved, snapshot, runs, txtVars>>

\* df_master = load_csl_hotels(); all_results = []
LoadCsl ==
    /\ pc = "load_csl"
    /\ \/ /\ df_master' = load_csl_hotels(excel)
          /\ pc' = "load_locations"
          /\ UNCHANGED <<fatal, response>>
       \/ /\ RaiseToCaller("load_csl_hotels")
          /\ UNCHANGED df_master
    /\ UNCHANGED <<excel, schema, db, locations, loc, crawl, crawl_failed, hotels, matched,
                   all_results, saved, snapshot, runs, txtVars>>

\* the loop "for loc in locations" moves to its next location, or ends
LoopTo(next, n) == IF next <= n THEN "scrape" ELSE "snapshot"

\* locations = load_locations()
LoadLocations ==
    /\ pc = "load_locations"
    /\ \/ \E n \in 0..MaxLocations :
             /\ locations' = [i \in 1..n |-> i]
             /\ loc' = 1
             /\ pc' = LoopTo(1, n)
             /\ UNCHANGED fatal
       \/ /\ CaughtFatal("load_locations")
          /\ UNCHANGED <<locations, loc>>
    /\ UNCHANGED <<excel, df_master, schema, db, crawl, crawl_failed, hotels, matched,
                   all_results, saved, snapshot, response, runs, txtVars>>

\* the record scrape_single_hotel builds from each page of the site
PAGE_RECORDS == [u \in URLS |-> scrape_single_hotel(SITE[u].name, SITE[u].address, u)]

\* what retry_action(lambda: scrape_single_hotel(driver, wait, href)) returns for href:
\* the record of its page, or None when the scrape failed
RetryResult(href, scrape_ok) == IF scrape_ok THEN PAGE_RECORDS[href] ELSE NoneRec

\* ScrapeLocation without the try of scrape_hotels_from_location: the exception
\* reaches main_scrape_and_map, which ends its loop
ScrapeLocation_NoCatch ==
    /\ pc = "scrape"
    /\ \/ \E links \in DistinctSeqs(URLS, MaxLinks) :
          \E failed \in SUBSET DOMAIN links :
             /\ crawl' = [k \in DOMAIN links |->
                            [href |-> links[k], data |-> RetryResult(links[k], k \notin failed)]]
             /\ hotels' = KeepScraped(crawl')
             /\ pc' = "match"
             /\ UNCHANGED <<crawl_failed, fatal>>
       \/ /\ crawl_failed' = crawl_failed \cup {loc}
          /\ CaughtFatal("scrape_hotels_from_location")
          /\ UNCHANGED <<crawl, hotels>>
    /\ UNCHANGED <<excel, df_master, schema, db, locations, loc, matched, all_results, saved,
                   snapshot, response, runs, txtVars>>

\* hotels = scrape_hotels_from_location(driver, wait, loc): an exception while the
\* location page is loaded or its links are read is caught there and leaves results empty
ScrapeLocation ==
    /\ pc = "scrape"
    /\ \/ \E links \in DistinctSeqs(URLS, MaxLinks) :
          \E failed \in SUBSET DOMAIN links :
             /\ crawl' = [k \in DOMAIN links |->
                            [href |-> links[k], data |-> RetryResult(links[k], k \notin failed)]]
             /\ hotels' = KeepScraped(crawl')
             /\ UNCHANGED crawl_failed
       \/ /\ crawl' = <<>>
          /\ hotels' = <<>>
          /\ crawl_failed' = crawl_failed \cup {loc}
    /\ pc' = "match"
    /\ UNCHANGED <<excel, df_master, schema, db, locations, loc, matched, all_results, saved,
                   snapshot, fatal, response, runs, txtVars>>

\* matched = match_hotels(hotels, df_master)
MatchHotels ==
    /\ pc = "match"
    /\ matched' = match_hotels(hotels, df_master)
    /\ pc' = "save"
    /\ UNCHANGED <<excel, df_master, schema, db, locations, loc, crawl, crawl_failed, hotels,
                   all_results, saved, snapshot, fatal, response, runs, txtVars>>

\* save_to_db(matched): nothing is done for an empty list; the INSERT raises when the
\* table does not accept it or the database cannot be reached
SaveToDb ==
    /\ pc = "save"
    /\ \/ /\ matched = <<>>
          /\ saved' = Append(saved, matched)
          /\ pc' = "extend"
          /\ UNCHANGED <<db, fatal>>
       \/ /\ matched # <<>>
          /\ InsertAccepted(schema)
          /\ db' = InsertAll(matched, db)
          /\ saved' = Append(saved, matched)
          /\ pc' = "extend"
          /\ UNCHANGED fatal
       \/ /\ matched # <<>>
          /\ CaughtFatal("save_to_db")
          /\ UNCHANGED <<db, saved>>
    /\ UNCHANGED <<excel, df_master, schema, locations, loc, crawl, crawl_failed, hotels, matched,
                   all_results, snapshot, response, runs, txtVars>>

\* all_results.extend(matched), and the loop goes on
Extend ==
    /\ pc = "extend"
    /\ all_results' = all_results \o matched
    /\ loc' = loc + 1
    /\ pc' = LoopTo(loc + 1, Len(locations))
    /\ UNCHANGED <<excel, df_master, schema, db, locations, crawl, crawl_failed, hotels, matched,
                   saved, snapshot, fatal, response, runs, txtVars>>

\* WriteSnapshot that writes the file only when the loop ended without failure
WriteSnapshot_OnlyOnSuccess ==
    /\ pc = "snapshot"
    /\ snapshot' = IF fatal = "none" THEN all_results ELSE snapshot
    /\ pc' = "return"
    /\ UNCHANGED <<excel, df_master, schema, db, locations, loc, crawl, crawl_failed, hotels,
                   matched, all_results, saved, fatal, response, runs, txtVars>>

\* json.dump(all_results, f) into hilton_hotel_url_mapped.json
WriteSnapshot ==
    /\ pc = "snapshot"
    /\ snapshot' = all_results
    /\ pc' = "return"
    /\ UNCHANGED <<excel, df_master, schema, db, locations, loc, crawl, crawl_failed, hotels,
                   matched, all_results, saved, fatal, response, runs, txtVars>>

\* return all_results, and run_scrape_and_map answers the caller
Return ==
    /\ pc = "return"
    /\ response' = SuccessResponse(all_results)
    /\ pc' = "idle"
    /\ UNCHANGED <<excel, df_master, schema, db, locations, loc, crawl, crawl_failed, hotels,
                   matched, all_results, saved, snapshot, fatal, runs, txtVars>>

Next ==
    \/ RunStart
    \/ CreateTable
    \/ LoadCsl
    \/ LoadLocations
    \/ ScrapeLocation
    \/ MatchHotels
    \/ SaveToDb
    \/ Extend
    \/ WriteSnapshot
    \/ Return

Spec == Init /\ [][Next]_vars

-----------------------------------------------------------------------------
(* The text functions on their own: an input is drawn, the function applied *)

MaxSegments == 4

MaxNameLen == 4

\* the request handler at rest, for the specifications of the text functions
RunIdle ==
    /\ pc = "idle"
    /\ excel = <<>>
    /\ schema = "none"
    /\ df_master = <<>>
    /\ db = <<>>
    /\ locations = <<>>
    /\ loc = 0
    /\ crawl = <<>>
    /\ crawl_failed = {}
    /\ hotels = <<>>
    /\ matched = <<>>
    /\ all_results = <<>>
    /\ saved = <<>>
    /\ snapshot = NoFile
    /\ fatal = "none"
    /\ response = NoResponse
    /\ runs = 0

\* what stands between two commas of an address the model draws
ADDRESS_SEGMENTS ==
    { <<>>,
      <<" ">>,
      <<"X">>,
      <<"B","a">>,
      <<"T","e","x">>,
      <<"W","9">>,
      <<"W","A"," ","9">>,
      <<" ","o","r","-","1"," ">> }

\* ",".join(segments)
RECURSIVE JoinComma(_)
JoinComma(segments) ==
    IF segments = <<>> THEN <<>>
    ELSE IF Len(segments) = 1 THEN segments[1]
    ELSE segments[1] \o <<",">> \o JoinComma(Tail(segments))

\* the addresses drawn: the text, and the segments it was written from
ADDRESSES ==
    {[segs |-> <<>>, text |-> NoneS]} \cup
    UNION { {[segs |-> s, text |-> JoinComma(s)] : s \in [1..n -> ADDRESS_SEGMENTS]} : n \in 0..MaxSegments }

InitParse ==
    /\ RunIdle
    /\ txt_in \in ADDRESSES
    /\ txt_out = <<>>
    /\ txt_op = "address"

ParseAddress ==
    /\ txt_op = "address"
    /\ txt_out' = parse_address_components(txt_in.text)
    /\ txt_op' = "parse_address_components"
    /\ UNCHANGED <<txt_in, runVars>>

NextParse == ParseAddress

SpecParse == InitParse /\ [][NextParse]_vars

\* the characters of the names the model draws
NAME_CHARS == {"n", "a", "N", ".", " ", "\t"}

NAMES == {NoneS} \cup UNION { [1..n -> NAME_CHARS] : n \in 0..MaxNameLen }

InitNorm ==
    /\ RunIdle
    /\ txt_in \in NAMES
    /\ txt_out = <<>>
    /\ txt_op = "name"

NormalizeText ==
    /\ txt_op = "name"
    /\ txt_out' = normalize_text(txt_in)
    /\ txt_op' = "normalize_text"
    /\ UNCHANGED <<txt_in, runVars>>

\* the normalizer applied to its own output
NormalizeTextAgain ==
    /\ txt_op = "normalize_text"
    /\ txt_in' = txt_out
    /\ txt_out' = normalize_text(txt_out)
    /\ txt_op' = "normalize_text twice"
    /\ UNCHANGED runVars

NormalizeName ==
    /\ txt_op = "name"
    /\ txt_out' = normalize_name(txt_in)
    /\ txt_op' = "normalize_name"
    /\ UNCHANGED <<txt_in, runVars>>

NormalizeNameAgain ==
    /\ txt_op = "normalize_name"
    /\ txt_in' = txt_out
    /\ txt_out' = normalize_name(txt_out)
    /\ txt_op' = "normalize_name twice"
    /\ UNCHANGED runVars

NextNorm ==
    \/ NormalizeText
    \/ NormalizeTextAgain
    \/ NormalizeName
    \/ NormalizeNameAgain

SpecNorm == InitNorm /\ [][NextNorm]_vars

MaxPad == 1

\* country_to_code of main.py: upper-cased, then trimmed; two spellings are mapped
main_country_to_code(country) ==
    IF ~Truthy(country) THEN NoneS
    ELSE LET c == Strip(Upper(country))
         IN  IF c \in { <<"U","S","A">>,
                        <<"U","N","I","T","E","D"," ","S","T","A","T","E","S">> }
             THEN <<"U","S">>
             ELSE c

\* a word in every mix of upper and lower case
CaseMix(word) ==
    { [i \in DOMAIN word |-> IF i \in up THEN UpperChar(word[i]) ELSE LowerChar(word[i])] :
        up \in SUBSET DOMAIN word }

\* a word in upper case, lower case, capitalised and alternating
CaseSome(word) ==
    { Upper(word), Lower(word),
      [i \in DOMAIN word |-> IF i = 1 THEN UpperChar(word[i]) ELSE LowerChar(word[i])],
      [i \in DOMAIN word |-> IF i % 2 = 0 THEN UpperChar(word[i]) ELSE LowerChar(word[i])] }

\* the country values drawn, without surrounding whitespace
COUNTRY_CORES ==
    CaseMix(<<"u","s","a">>) \cup CaseMix(<<"u","s">>) \cup CaseMix(<<"u",".","s",".">>)
        \cup CaseMix(<<"u",".","s",".","a",".">>)
        \cup CaseSome(<<"u","n","i","t","e","d"," ","s","t","a","t","e","s">>)
        \cup CaseSome(<<"u","n","i","t","e","d"," "," ","s","t","a","t","e","s">>)
        \cup CaseMix(<<"f","r">>) \cup CaseMix(<<"u",".","s">>) \cup CaseMix(<<"u"," ","s">>)
        \cup CaseSome(<<"u","s","a",".">>) \cup CaseSome(<<"F","r","a","n","c","e">>)
        \cup { <<>>, <<"9">>, <<"U","K","-","1">> }

\* the whitespace around a value
PADS == UNION { [1..n -> {" ", "\t"}] : n \in 0..MaxPad }

\* the arguments drawn: the text, and the value it was written from
COUNTRIES ==
    {[core |-> <<>>, text |-> NoneS]} \cup
    { [core |-> c, text |-> l \o c \o r] : c \in COUNTRY_CORES, l \in PADS, r \in PADS }

InitCountry ==
    /\ RunIdle
    /\ txt_in \in COUNTRIES
    /\ txt_out = <<>>
    /\ txt_op = "country"

\* country_to_code(country) of match_EXCEL.py
CountryToCode ==
    /\ txt_op = "country"
    /\ txt_out' = country_to_code(txt_in.text)
    /\ txt_op' = "country_to_code"
    /\ UNCHANGED <<txt_in, runVars>>

\* country_to_code(country) of main.py
MainCountryToCode ==
    /\ txt_op = "country"
    /\ txt_out' = main_country_to_code(txt_in.text)
    /\ txt_op' = "main.country_to_code"
    /\ UNCHANGED <<txt_in, runVars>>

NextCountry ==
    \/ CountryToCode
    \/ MainCountryToCode

SpecCountry == InitCountry /\ [][NextCountry]_vars

\* retry_action has not returned yet
Pending == [pending |-> TRUE]

\* the calls of retry_action drawn: the action it is given, the page the action
\* loads, and for each visit of that page whether it loads and is read without error.
\* The action is the lambda of scrape_hotels_from_location, which calls
\* scrape_single_hotel, or a callable that lets its exception out.
RETRY_CALLS ==
    [action : {"scrape_single_hotel", "raising"},
     href : URLS,
     page : [1..(RETRY_LIMIT + 1) -> BOOLEAN]]

\* retry_action is entered: i is the loop variable, calls counts the calls of action
InitRetry ==
    /\ RunIdle
    /\ txt_in \in RETRY_CALLS
    /\ txt_out = [i |-> 0, calls |-> 0, result |-> Pending]
    /\ txt_op = "retry_action"

\* return action(): the action comes back without exception.  scrape_single_hotel
\* catches every exception of its page and comes back with None.
AttemptReturns ==
    /\ txt_op = "retry_action"
    /\ txt_out.i < RETRY_LIMIT
    /\ LET visit == txt_out.calls + 1
           loaded == txt_in.page[visit]
       IN  /\ loaded \/ txt_in.action = "scrape_single_hotel"
           /\ txt_out' = [i |-> txt_out.i, calls |-> visit,
                          result |-> RetryResult(txt_in.href, loaded)]
    /\ txt_op' = "returned"
    /\ UNCHANGED <<txt_in, runVars>>

\* except Exception: the action raised; print, sleep, next i
AttemptRaises ==
    /\ txt_op = "retry_action"
    /\ txt_out.i < RETRY_LIMIT
    /\ LET visit == txt_out.calls + 1
       IN  /\ ~txt_in.page[visit]
           /\ txt_in.action = "raising"
           /\ txt_out' = [i |-> txt_out.i + 1, calls |-> visit, result |-> Pending]
    /\ UNCHANGED <<txt_in, txt_op, runVars>>

\* the loop is over: "Max retries reached", return None
MaxRetriesReached ==
    /\ txt_op = "retry_action"
    /\ txt_out.i >= RETRY_LIMIT
    /\ txt_out' = [i |-> txt_out.i, calls |-> txt_out.calls, result |-> NoneRec]
    /\ txt_op' = "returned"
    /\ UNCHANGED <<txt_in, runVars>>

NextRetry ==
    \/ AttemptReturns
    \/ AttemptRaises
    \/ MaxRetriesReached

SpecRetry == InitRetry /\ [][NextRetry]_vars

-----------------------------------------------------------------------------
(* Properties *)

Threshold == FUZZY_THRESHOLD * 100

\* the outcomes held anywhere: the current list, the accumulator, the table, the snapshot
AllOutcomes ==
    Range(matched) \cup Range(all_results) \cup Range(db)
        \cup (IF snapshot = NoFile THEN {} ELSE Range(snapshot))

\* the lists of a list, concatenated
RECURSIVE Flatten(_)
Flatten(lists) == IF lists = <<>> THEN <<>> ELSE Head(lists) \o Flatten(Tail(lists))

\* match_hotels has returned for the current location
AfterMatch == pc \in {"save", "extend"}

\* the scraped record an outcome of the current location was decided for
ItemOf(o) == CHOOSE h \in Range(hotels) : h.url = o.url

ScoreOf(item, i) == token_set_ratio(item.hotel_norm, df_master[i].hotel_norm)

CandidateSet(item) == Range(Candidates(item, df_master))

\* C1: every outcome has match_confidence >= FUZZY_THRESHOLD exactly when its
\* hotel_code is not null, and an outcome without hotel_code has match_confidence 0.
C1_ConfidenceIffMatched ==
    \A o \in AllOutcomes :
        /\ (o.match_confidence >= Threshold) <=> (o.hotel_code # Null)
        /\ o.hotel_code = Null => o.match_confidence = 0

\* match_hotels returned a match and a no-match whose best candidate scored above 0
\* and below the threshold
C1_Witness ==
    /\ AfterMatch
    /\ \E o \in Range(matched) : o.hotel_code # Null /\ o.match_confidence >= Threshold
    /\ \E o \in Range(matched) :
          /\ o.hotel_code = Null
          /\ o.match_confidence = 0
          /\ \E i \in CandidateSet(ItemOf(o)) : ScoreOf(ItemOf(o), i) > 0

Unresolvable(data) ==
    IF data = NoneRec THEN TRUE
    ELSE data.city_norm \in {<<>>, NoneS} \/ data.country_code \in {<<>>, NoneS}

\* C2: a scrape that came back null, or a record whose normalized city or country
\* code is empty, has no outcome in what match_hotels returns, and no outcome held
\* anywhere is one of a record without city or country code.
C2_UnresolvableNeverEmitted ==
    /\ AfterMatch =>
          \A k \in DOMAIN crawl :
              Unresolvable(crawl[k].data) => \A o \in Range(matched) : o.url # crawl[k].href
    /\ \A o \in AllOutcomes :
          /\ normalize_text(o.city) # <<>>
          /\ o.country_code \notin {<<>>, NoneS}

\* at the second location one link failed to scrape and the other has no city; the
\* first location had given outcomes, and match_hotels returned none for this one
C2_Witness ==
    /\ pc = "save"
    /\ loc = 2
    /\ all_results # <<>>
    /\ Len(crawl) = 2
    /\ \E k \in DOMAIN crawl : crawl[k].data = NoneRec
    /\ \E k \in DOMAIN crawl : crawl[k].data # NoneRec /\ crawl[k].data.city_norm = <<>>
    /\ matched = <<>>

Persisted(o) == \E i \in DOMAIN db : db[i].hotel_code = o.hotel_code /\ db[i].url = o.url

C4_OneRowPerKey ==
    \A i, j \in DOMAIN db :
        i < j => ~(db[i].hotel_code = db[j].hotel_code /\ db[i].url = db[j].url)

\* C5: the caller gets a success result only from a run without fatal failure.
C5_SuccessOnlyWithoutFatal ==
    response.status = "success" => fatal = "none"

FirstHighest(item, w) ==
    /\ w \in CandidateSet(item)
    /\ \A j \in CandidateSet(item) :
          \/ ScoreOf(item, j) < ScoreOf(item, w)
          \/ ScoreOf(item, j) = ScoreOf(item, w) /\ w <= j

\* C7: a matched outcome carries the hotel_code, name, latitude and longitude of the
\* first candidate with the highest score, and that score as match_confidence; an
\* outcome without match is one whose candidates all score below the threshold.
C7_FirstHighestWins ==
    AfterMatch =>
        \A o \in Range(matched) :
            LET item == ItemOf(o)
            IN  IF o.hotel_code # Null
                THEN \E w \in DOMAIN df_master :
                        /\ FirstHighest(item, w)
                        /\ o.hotel_code = df_master[w].id
                        /\ o.global_property_name = df_master[w].name
                        /\ o.latitude = df_master[w].lat
                        /\ o.longitude = df_master[w].lon
                        /\ o.match_confidence = ScoreOf(item, w)
                ELSE \A j \in CandidateSet(item) : ScoreOf(item, j) < Threshold

\* two candidates share the highest score and the outcome is the earlier one's
C7_Witness ==
    /\ AfterMatch
    /\ \E o \in Range(matched) :
          \E w, j \in CandidateSet(ItemOf(o)) :
              /\ w < j
              /\ FirstHighest(ItemOf(o), w)
              /\ ScoreOf(ItemOf(o), j) = ScoreOf(ItemOf(o), w)
              /\ o.hotel_code = df_master[w].id

\* the rows the claim names for a record
GeoRows(item) ==
    {i \in DOMAIN df_master :
        /\ df_master[i].city_norm = item.city_norm
        /\ df_master[i].country_code = item.country_code
        /\ item.state_code # NoneS => df_master[i].state_code = item.state_code}

Parts(segs) ==
    LET trimmed == [i \in DOMAIN segs |-> Strip(segs[i])]
        NonEmpty(p) == p # <<>>
    IN  SelectSeq(trimmed, NonEmpty)

\* a segment that starts with a two-letter alphabetic code: two letters, and then the
\* end of the segment or a character that is no letter, digit or underscore
StartsWithCode(p) ==
    /\ Len(p) >= 2
    /\ p[1] \in Range(LOWER) \cup Range(UPPER)
    /\ p[2] \in Range(LOWER) \cup Range(UPPER)
    /\ Len(p) > 2 => p[3] \notin Range(LOWER) \cup Range(UPPER) \cup Range(DIGITS) \cup {"_"}

\* what the claim gives for two segments or more
ParsedFromTwo(p) ==
    LET n == Len(p)
    IN  IF n = 2 THEN <<p[1], <<>>, p[2]>>
        ELSE IF StartsWithCode(p[n - 1]) THEN <<p[n - 2], SubSeq(p[n - 1], 1, 2), p[n]>>
        ELSE <<p[n - 1], <<>>, p[n]>>

\* C9 as stated: with fewer than two segments city, state and country are empty.
C9_AsStated ==
    txt_op = "parse_address_components" =>
        LET p == Parts(txt_in.segs)
        IN  txt_out = IF Len(p) < 2 THEN << <<>>, <<>>, <<>> >> ELSE ParsedFromTwo(p)

\* C9, amended: with no segment city, state and country are empty; with exactly one,
\* city and state are empty and the segment is the country; with two or more as stated.
C9_ParseAddress ==
    txt_op = "parse_address_components" =>
        LET p == Parts(txt_in.segs)
        IN  txt_out = IF Len(p) = 0 THEN << <<>>, <<>>, <<>> >>
                      ELSE IF Len(p) = 1 THEN << <<>>, <<>>, p[1] >>
                      ELSE ParsedFromTwo(p)

\* an address of one segment among blank ones was parsed: the segment is the country
C9_Witness ==
    /\ txt_op = "parse_address_components"
    /\ Len(txt_in.segs) > 1
    /\ Len(Parts(txt_in.segs)) = 1
    /\ txt_out[3] = Parts(txt_in.segs)[1]
    /\ txt_out[1] = <<>>

\* C10: a normalizer applied to its own output returns it unchanged.
C10_NormalizerIdempotent ==
    txt_op \in {"normalize_text twice", "normalize_name twice"} => txt_out = txt_in

\* the batches save_to_db was called with, in order: those it stored and, when it
\* raised, the one it raised on (matched is kept until the next run starts)
Handed == IF fatal = "save_to_db" THEN Append(saved, matched) ELSE saved

\* the discovered records of the current location that have a city and a country code
Resolvable == SelectSeq(hotels, LAMBDA h : ~Unresolvable(h))

\* C11: match_hotels returns exactly one outcome for each discovered record with a
\* city and a country code, in order, and when the run ends the result set and the
\* snapshot hold exactly the outcomes save_to_db was called with, each once.
C11_OutcomeAppendedAndHandedOnce ==
    /\ AfterMatch =>
          [k \in DOMAIN matched |-> matched[k].url] =
              [k \in DOMAIN Resolvable |-> Resolvable[k].url]
    /\ pc = "return" =>
          /\ all_results = Flatten(Handed)
          /\ snapshot = Flatten(Handed)

\* the same for a run in which nothing failed
C11_WithoutFailure ==
    /\ AfterMatch =>
          [k \in DOMAIN matched |-> matched[k].url] =
              [k \in DOMAIN Resolvable |-> Resolvable[k].url]
    /\ (pc = "return" /\ fatal = "none") =>
          /\ all_results = Flatten(Handed)
          /\ snapshot = Flatten(Handed)

\* the whitespace-separated tokens of a name
Tokens(name) == IF Truthy(name) THEN Range(SplitWs(name)) ELSE {}

\* the record's name has no token in common with the name of any of its candidates,
\* and it has candidates
NoSharedToken(item) ==
    /\ CandidateSet(item) # {}
    /\ \A i \in CandidateSet(item) :
          Tokens(item.hotel_norm) \cap Tokens(df_master[i].hotel_norm) = {}

\* the similarity of two names character by character, their tokens sorted: the
\* share of the characters of both that an alignment keeps, in hundredths of a point
CharSimilarity(a, b) ==
    LET sa == JoinSp(Sorted(Tokens(a)))
        sb == JoinSp(Sorted(Tokens(b)))
    IN  IF sa = <<>> \/ sb = <<>> THEN 0
        ELSE 10000 - ((10000 * (Len(sa) + Len(sb) - 2 * LcsLen(sa, sb))) \div (Len(sa) + Len(sb)))

\* C12 as stated: a record whose name shares no token with any of its candidates
\* gets a no-match outcome, hotel_code null and match_confidence 0.
C12_AsStated ==
    AfterMatch =>
        \A o \in Range(matched) :
            NoSharedToken(ItemOf(o)) => (o.hotel_code = Null /\ o.match_confidence = 0)

\* C12: a record whose name shares no token with any of its candidates gets a
\* no-match outcome, hotel_code null and match_confidence 0, exactly when every
\* candidate's character similarity is below the threshold; otherwise it is matched
\* to the first candidate of the highest character similarity, with that score.
C12_NoSharedToken ==
    AfterMatch =>
        \A o \in Range(matched) :
            LET item == ItemOf(o)
                Sim(i) == CharSimilarity(item.hotel_norm, df_master[i].hotel_norm)
            IN  NoSharedToken(item) =>
                    IF \A i \in CandidateSet(item) : Sim(i) < Threshold
                    THEN o.hotel_code = Null /\ o.match_confidence = 0
                    ELSE \E w \in CandidateSet(item) :
                            /\ \A j \in CandidateSet(item) :
                                  Sim(j) < Sim(w) \/ (Sim(j) = Sim(w) /\ w <= j)
                            /\ o.hotel_code = df_master[w].id
                            /\ o.match_confidence = Sim(w)
                            /\ Sim(w) >= Threshold

\* match_hotels returned a match for a record that shares no token with any of its
\* candidates, and a no-match for another such record
C12_Witness ==
    /\ AfterMatch
    /\ \E o \in Range(matched) : NoSharedToken(ItemOf(o)) /\ o.hotel_code # Null
    /\ \E o \in Range(matched) :
          /\ NoSharedToken(ItemOf(o))
          /\ o.hotel_code = Null
          /\ o.match_confidence = 0
          /\ \E i \in CandidateSet(ItemOf(o)) :
                CharSimilarity(ItemOf(o).hotel_norm, df_master[i].hotel_norm) > 0

\* the spellings the claim lists, in lower case
LISTED_SPELLINGS ==
    { <<"u","s","a">>,
      <<"u","n","i","t","e","d"," ","s","t","a","t","e","s">>,
      <<"u","s">>,
      <<"u",".","s",".">>,
      <<"u",".","s",".","a",".">> }

Listed(core) == Lower(core) \in LISTED_SPELLINGS

\* C13 as stated: country_to_code returns null for an empty value, "US" for a
\* listed spelling in any letter case and with whitespace around it, and any other
\* non-empty value upper-cased and otherwise as it was given.
C13_AsStated ==
    txt_op \in {"country_to_code", "main.country_to_code"} =>
        IF txt_in.text \in {NoneS, <<>>} THEN txt_out = NoneS
        ELSE IF Listed(txt_in.core) THEN txt_out = <<"U","S">>
        ELSE txt_out = Upper(txt_in.text)

\* what country_to_code of match_EXCEL.py does: null for a value that is empty once
\* trimmed, "US" for a listed spelling, any other value trimmed and upper-cased
C13_MatchExcelTrimmed ==
    txt_op = "country_to_code" =>
        IF txt_in.core = <<>> THEN txt_out = NoneS
        ELSE IF Listed(txt_in.core) THEN txt_out = <<"U","S">>
        ELSE txt_out = Upper(txt_in.core)

\* the visits of the page, among the first n, that load and are read without error
Loaded(n) == {k \in 1..n : txt_in.page[k]}

\* the policy for a call of retry_action that is running or has returned
RetryPolicy ==
    /\ txt_out.calls <= RETRY_LIMIT
    /\ \A k \in 1..(txt_out.calls - 1) : ~txt_in.page[k]
    /\ txt_op = "returned" =>
          IF Loaded(RETRY_LIMIT) = {}
          THEN txt_out.result = NoneRec /\ txt_out.calls = RETRY_LIMIT
          ELSE /\ txt_out.result = PAGE_RECORDS[txt_in.href]
               /\ txt_out.calls = SetMin(Loaded(RETRY_LIMIT))

\* C14: retry_action calls the action at most RETRY_LIMIT times, one attempt after
\* the other, returns the result of the first attempt that succeeds, and returns None
\* only after RETRY_LIMIT failed attempts; so the scrape of a hotel page that fails is
\* attempted RETRY_LIMIT times before it is given up.
C14_BoundedRetry ==
    txt_op \in {"retry_action", "returned"} => RetryPolicy

\* the same for an action whose failure is an exception that reaches retry_action
C14_RaisingAction ==
    (txt_op \in {"retry_action", "returned"} /\ txt_in.action = "raising") => RetryPolicy

====
